---- MODULE Spec2Model ----
(***************************************************************************)
(* Model of the authenticated session core of mimiqlink:                   *)
(*   src/src/mimiqlink/mimiqconnection.py   (MimiqConnection)              *)
(*   src/src/mimiqlink/abstractconnection.py (authenticated operations)    *)
(*   src/mimiqlink/connection.py            (earlier MimiqConnection)      *)
(*   src/src/mimiqlink/planqkconnection.py  (PlanqkConnection)             *)
(*   src/mimiqlink/handler.py               (local login server)           *)
(*                                                                         *)
(* One foreground thread (Main) issues the public operations; every        *)
(* __startRefresher creates one refresher thread.  Each thread has a       *)
(* program counter and a stack of return labels; one action is one         *)
(* statement group between two scheduling points (a lock acquisition, a    *)
(* shared read or write, an HTTP send, an HTTP answer, a join).            *)
(***************************************************************************)
EXTENDS Integers, Sequences, FiniteSets, TLC

\* ------------------------------------------------------------- bounds
\* Refresher threads that one session may create in a run.
MaxThreads == 2
\* Tokens the server issues in a run (200 answers of sign-in, access-token or
\* the PlanQK token endpoint).
MaxIssued == 2
\* One-second ticks of one refresher interval (15 * 60 in the code).
refresher_interval == 1
\* Longest token lifetime, in seconds, the PlanQK token endpoint answers with.
MaxLifetime == 3

\* ------------------------------------------------------------- values
\* The largest number of files the metadata of a request reports.
MaxFiles == 2

Main == 0
NoThread == -1
Refreshers == 1..MaxThreads
Threads == {Main} \cup Refreshers

None == <<"none", 0>>
AT(k) == <<"at", k>>
RT(k) == <<"rt", k>>
\* The body of a 200 answer of sign-in or access-token: {token, refreshToken}.
TokenResponse(k) == [status |-> 200, token |-> AT(k), refreshToken |-> RT(k)]
ErrorResponse(s) == [status |-> s, token |-> None, refreshToken |-> None]
NoResponse == [status |-> 0, token |-> None, refreshToken |-> None]
ErrStatus == {400}
\* expires_in values (seconds) the PlanQK token endpoint may answer with.
Lifetimes == {1, MaxLifetime}
\* JWTtoken(access_token, scope, token_type, expires_in)
JWT(k, e) == <<"jwt", k, e>>
expires_in(token) == token[3]
Bearer(tok) == <<"Bearer", tok>>

\* MimiqConnection of src/src/mimiqlink/mimiqconnection.py ("current") and of
\* src/mimiqlink/connection.py ("legacy"), and PlanqkConnection ("planqk").
Versions == {"current", "legacy", "planqk"}

\* The token file: absent or unreadable, or {"token": ..., "url": ...} saved for
\* this session's url or for another one.
NoFile == [url |-> "", token |-> None]
TokenFiles == {NoFile} \cup {[url |-> u, token |-> RT(0)] : u \in {"this", "other"}}
\* What an exception carries besides its kind.
NoErr == [status |-> 0, reason |-> ""]
\* The metadata of a request: numberOfUploadedFiles, numberOfResultedFiles.
NoInfo == [uploads |-> 0, results |-> 0]
NoDownload == [source |-> "", info |-> NoInfo, status |-> "", nf |-> 0,
               idx |-> 0, name |-> None, names |-> <<>>]

\* The local login server: the request it handled last, whether the login
\* callback was invoked for it, the answer of the remote sign-in the callback
\* received, and the status and content sent to the browser.
NoWeb == [method |-> "", path |-> <<>>, body |-> "", called |-> FALSE,
          remote |-> NoResponse, status |-> 0, content |-> <<"none", 0>>]

NoOp == [name |-> "", nargs |-> 0, noauth |-> FALSE, sent |-> FALSE]
NoResult == [op |-> "", outcome |-> "", exc |-> "", open |-> FALSE,
             noauth |-> FALSE, sent |-> FALSE]

VARIABLES
    version,          \* which class the session object was constructed from
    access_token,     \* self.access_token
    refresh_token,    \* self.refresh_token
    refresher_stop,   \* self.refresher_stop
    refresher_task,   \* self.refresher_task: NoThread (None) or a thread
    refresher_lock,   \* owner of self.refresher_lock, NoThread when free
    headers,          \* self.session.headers["Authorization"], None when absent
    user_limits,      \* self.user_limits: FALSE (None) or TRUE (fetched)
    pc,               \* position of every thread
    stack,            \* return labels of every thread
    arg,              \* refresh token handed to connectToken
    data,             \* refresh(): the refreshToken read for the request body
    resp,             \* the HTTP answer a thread is working on
    tok,              \* __updateSessionHeaders(): the token read under the lock
    i,                \* __refresherMain(): ticks slept in the current interval
    sleep_time,       \* PlanqkConnection.__refresherMain(): ticks to sleep
    consumer_key,     \* PlanqkConnection: TRUE when key and secret are set
    tokenfile,        \* the token file on disk (qperfect.json)
    web,              \* the exchange the local login server handled last
    wire,             \* requests the current job operation has sent, in order
    dl,               \* downloadFiles(): source, metadata, nf, idx, names
    err,              \* status and reason carried by the exception raised last
    retval,           \* value returned by the last call of a thread
    issued,           \* pairs issued by the server so far
    nthreads,         \* refresher threads created so far
    op,               \* the public operation Main is executing
    result            \* outcome of the public operation that just returned

shared == <<access_token, refresh_token, refresher_stop, refresher_task,
            refresher_lock, headers, user_limits>>
pqlocals == <<sleep_time, consumer_key>>
jobvars == <<tokenfile, web, wire, dl, err>>
locals == <<arg, data, resp, tok, i, sleep_time, consumer_key, tokenfile, web,
            wire, dl, err>>
vars == <<version, access_token, refresh_token, refresher_stop, refresher_task,
          refresher_lock, headers, user_limits, pc, stack, arg, data, resp,
          tok, i, sleep_time, consumer_key, tokenfile, web, wire, dl, err, retval,
          issued, nthreads, op, result>>

\* ------------------------------------------------------------- threads
\* threading.Thread.is_alive()
is_alive(pcs, t) == t \in Refreshers /\ pcs[t] \notin {"unborn", "dead"}

\* An isOpen that never reports an open session.
isOpenNever(task, pcs, token) == FALSE

\* MimiqConnection.isOpen on the values it reads.
isOpenOf(task, pcs, token) ==
    /\ task # NoThread
    /\ is_alive(pcs, task)
    /\ token # None

isOpen == isOpenOf(refresher_task, pc, access_token)

\* The try/except frames without the one of PlanqkConnection.__refresherMain.
CatchLabelsNoRenewal == {"hd_resp", "lt_ret"}

\* Labels whose frame is a try/except that catches the exception.
CatchLabels == {"hd_resp", "lt_ret", "pq_rm_got", "pq_rm_done"}
HandlerOf(l) ==
    IF l = "hd_resp" THEN "hd_err"
    ELSE IF l = "lt_ret" THEN "lt_err" ELSE "pq_rm_err"

RECURSIVE Unwind(_)
Unwind(stk) ==
    IF stk = <<>> THEN <<>>
    ELSE IF Head(stk) \in CatchLabels THEN stk
    ELSE Unwind(Tail(stk))

Finished(outcome, exc) ==
    [op |-> op.name, outcome |-> outcome, exc |-> exc,
     open |-> isOpenOf(refresher_task', pc', access_token'),
     noauth |-> op.noauth, sent |-> op'.sent]

\* `return` of the function thread t executes.
Return(t, v) ==
    /\ version' = version
    /\ retval' = [retval EXCEPT ![t] = v]
    /\ IF stack[t] # <<>>
       THEN /\ pc' = [pc EXCEPT ![t] = Head(stack[t])]
            /\ stack' = [stack EXCEPT ![t] = Tail(@)]
            /\ result' = result
       ELSE /\ pc' = [pc EXCEPT ![t] = IF t = Main THEN "done" ELSE "dead"]
            /\ stack' = stack
            /\ result' = IF t = Main THEN Finished("ok", "") ELSE result

\* `raise` in thread t: the nearest enclosing except clause takes it; with none,
\* the public operation fails (Main) or the thread dies (a refresher).
Raise(t, exc) ==
    /\ version' = version
    /\ retval' = [retval EXCEPT ![t] = exc]
    /\ LET s == Unwind(stack[t]) IN
       IF s # <<>>
       THEN /\ pc' = [pc EXCEPT ![t] = HandlerOf(Head(s))]
            /\ stack' = [stack EXCEPT ![t] = Tail(s)]
            /\ result' = result
       ELSE /\ pc' = [pc EXCEPT ![t] = IF t = Main THEN "done" ELSE "dead"]
            /\ stack' = [stack EXCEPT ![t] = <<>>]
            /\ result' = IF t = Main THEN Finished("raised", exc) ELSE result

Goto(t, l) ==
    /\ pc' = [pc EXCEPT ![t] = l]
    /\ UNCHANGED <<version, stack, retval, result>>

Call(t, entry, ret) ==
    /\ pc' = [pc EXCEPT ![t] = entry]
    /\ stack' = [stack EXCEPT ![t] = <<ret>> \o @]
    /\ UNCHANGED <<version, retval, result>>

\* `with self.refresher_lock:` entered by thread t at label l.
Acquire(t, l, next) ==
    /\ pc[t] = l
    /\ refresher_lock = NoThread
    /\ refresher_lock' = t
    /\ Goto(t, next)
    /\ UNCHANGED <<access_token, refresh_token, refresher_stop, refresher_task,
                   headers, user_limits, locals, issued, nthreads, op>>

\* An HTTP request leaves thread t.
Sent(t) == op' = IF t = Main THEN [op EXCEPT !.sent = TRUE] ELSE op

\* The session object after the constructor of class v.
Constructed(v) ==
    /\ version = v
    /\ access_token = None
    /\ refresh_token = None
    /\ refresher_stop = FALSE
    /\ refresher_task = NoThread
    /\ refresher_lock = NoThread
    /\ headers = None
    /\ user_limits = FALSE
    /\ pc = [t \in Threads |-> IF t = Main THEN "idle" ELSE "unborn"]
    /\ stack = [t \in Threads |-> <<>>]
    /\ arg = [t \in Threads |-> None]
    /\ data = [t \in Threads |-> None]
    /\ resp = [t \in Threads |-> NoResponse]
    /\ tok = [t \in Threads |-> None]
    /\ i = [t \in Threads |-> 0]
    /\ sleep_time = [t \in Threads |-> 0]
    /\ consumer_key \in (IF version = "planqk" THEN BOOLEAN ELSE {FALSE})
    /\ tokenfile \in (IF version = "current" THEN TokenFiles ELSE {NoFile})
    /\ web = NoWeb
    /\ wire = <<>>
    /\ dl = NoDownload
    /\ err = NoErr
    /\ retval = [t \in Threads |-> ""]
    /\ issued = 0
    /\ nthreads = 0
    /\ op = NoOp
    /\ result = NoResult

Init == \E v \in Versions : Constructed(v)

\* ------------------------------------------------------------- server
\* The answer of sign-in or access-token: 200 with a fresh pair, or an error.
Answers ==
    (IF issued < MaxIssued THEN {TokenResponse(issued + 1)} ELSE {})
        \cup {ErrorResponse(s) : s \in ErrStatus}

\* ------------------------------------------------- __updateSessionHeaders
ush_lock(t) == Acquire(t, "ush_lock", "ush_read")

ush_read(t) ==
    /\ pc[t] = "ush_read"
    /\ tok' = [tok EXCEPT ![t] = access_token]
    /\ refresher_lock' = NoThread
    /\ Goto(t, "ush_set")
    /\ UNCHANGED <<access_token, refresh_token, refresher_stop, refresher_task,
                   headers, user_limits, arg, data, resp, i, issued,
                   nthreads, op, pqlocals,
                   jobvars>>

\* The Authorization value built from the token read: "Bearer " + the token, or
\* + token.access_token in PlanqkConnection.
HeaderOf(token) ==
    Bearer(IF version = "planqk" /\ token # None THEN AT(token[2]) ELSE token)

ush_set(t) ==
    /\ pc[t] = "ush_set"
    /\ tok' = [tok EXCEPT ![t] = None]
    /\ UNCHANGED <<access_token, refresh_token, refresher_stop, refresher_task,
                   refresher_lock, user_limits, arg, data, resp, i, issued,
                   nthreads, op, pqlocals,
                   jobvars>>
    /\ IF version = "planqk" /\ tok[t] = None
       THEN /\ headers' = headers
            /\ Raise(t, "NotAuthenticated")
       ELSE /\ headers' = HeaderOf(tok[t])
            /\ Return(t, "None")

\* ------------------------------------------------------------- checkAuth
ca_lock(t) == Acquire(t, "ca_lock", "ca_chk")

\* A checkAuth that lets every caller through.
checkAuthNever(token) == FALSE

\* The outcome of checkAuth for the access token it finds.
checkAuthRaises(token) == token = None

ca_chk(t) ==
    /\ pc[t] = "ca_chk"
    /\ refresher_lock' = NoThread
    /\ UNCHANGED <<access_token, refresh_token, refresher_stop, refresher_task,
                   headers, user_limits, locals, issued, nthreads, op>>
    /\ IF checkAuthRaises(access_token)
       THEN Raise(t, "NotAuthenticated")
       ELSE Return(t, "None")

\* ------------------------------------------------------ __updateUserLimits
uul_auth(t) ==
    /\ pc[t] = "uul_auth"
    /\ Call(t, "ca_lock", "uul_get")
    /\ UNCHANGED <<shared, locals, issued, nthreads, op>>

uul_get(t) ==
    /\ pc[t] = "uul_get"
    /\ Sent(t)
    /\ Goto(t, "uul_resp")
    /\ UNCHANGED <<shared, locals, issued, nthreads>>

uul_resp(t) ==
    /\ pc[t] = "uul_resp"
    /\ \E status \in {200} \cup ErrStatus :
          IF status # 200
          THEN /\ UNCHANGED <<shared, locals, issued, nthreads, op>>
               /\ Raise(t, "LimitsFailed")
          ELSE /\ user_limits' = TRUE
               /\ UNCHANGED <<access_token, refresh_token, refresher_stop,
                              refresher_task, refresher_lock, headers, locals,
                              issued, nthreads, op>>
               /\ Return(t, "None")

\* ------------------------------------------------------------- refresh
rf_lock(t) == Acquire(t, "rf_lock", "rf_read")

rf_read(t) ==
    /\ pc[t] = "rf_read"
    /\ data' = [data EXCEPT ![t] = refresh_token]
    /\ refresher_lock' = NoThread
    /\ Goto(t, "rf_post")
    /\ UNCHANGED <<access_token, refresh_token, refresher_stop, refresher_task,
                   headers, user_limits, arg, resp, tok, i, issued, nthreads,
                   op, pqlocals,
                   jobvars>>

rf_post(t) ==
    /\ pc[t] = "rf_post"
    /\ Sent(t)
    /\ Goto(t, "rf_resp")
    /\ UNCHANGED <<shared, locals, issued, nthreads>>

rf_resp(t) ==
    /\ pc[t] = "rf_resp"
    /\ \E r \in Answers :
          IF r.status # 200
          THEN /\ data' = [data EXCEPT ![t] = None]
               /\ err' = IF t = Main THEN [status |-> r.status, reason |-> ""]
                                     ELSE err
               /\ UNCHANGED <<shared, arg, resp, tok, i, issued, nthreads,
                              op, pqlocals, tokenfile, web, wire, dl>>
               /\ Raise(t, "RefreshFailed")
          ELSE /\ resp' = [resp EXCEPT ![t] = r]
               /\ issued' = issued + 1
               /\ Goto(t, "rf_lock2")
               /\ UNCHANGED <<shared, arg, data, tok, i, nthreads, op,
                              pqlocals,
                              jobvars>>

rf_lock2(t) == Acquire(t, "rf_lock2", "rf_setA")

\* A critical section that stores the access token only.
StoredRefreshKept(r) == refresh_token

\* The pair that the critical section of refresh / _weblogin stores for an
\* answer.
StoredAccess(r) == r.token
StoredRefresh(r) == r.refreshToken

rf_setA(t) ==
    /\ pc[t] = "rf_setA"
    /\ access_token' = StoredAccess(resp[t])
    /\ Goto(t, "rf_setR")
    /\ UNCHANGED <<refresh_token, refresher_stop, refresher_task,
                   refresher_lock,
                   headers, user_limits, locals, issued, nthreads, op>>

rf_setR(t) ==
    /\ pc[t] = "rf_setR"
    /\ refresh_token' = StoredRefresh(resp[t])
    /\ refresher_lock' = NoThread
    /\ data' = [data EXCEPT ![t] = None]
    /\ resp' = [resp EXCEPT ![t] = NoResponse]
    /\ Call(t, "ush_lock", "rf_uul")
    /\ UNCHANGED <<access_token, refresher_stop, refresher_task, headers,
                   user_limits, arg, tok, i, issued, nthreads, op, pqlocals,
                   jobvars>>

rf_uul(t) ==
    /\ pc[t] = "rf_uul"
    /\ Call(t, "uul_auth", "rf_ret")
    /\ UNCHANGED <<shared, locals, issued, nthreads, op>>

rf_ret(t) ==
    /\ pc[t] = "rf_ret"
    /\ UNCHANGED <<shared, locals, issued, nthreads, op>>
    /\ Return(t, "True")

\* ------------------------------------------------------- __refresherMain
\* for i in range(self.refresher_interval): time.sleep(1);
\*     with self.refresher_lock:
rm_for(t) ==
    /\ pc[t] = "rm_for"
    /\ IF i[t] < refresher_interval
       THEN /\ refresher_lock = NoThread
            /\ refresher_lock' = t
            /\ Goto(t, "rm_chk")
       ELSE /\ refresher_lock' = refresher_lock
            /\ Goto(t, "rm_lock2")
    /\ UNCHANGED <<access_token, refresh_token, refresher_stop, refresher_task,
                   headers, user_limits, locals, issued, nthreads, op>>

rm_chk(t) ==
    /\ pc[t] = "rm_chk"
    /\ refresher_lock' = NoThread
    /\ IF refresher_stop
       THEN /\ i' = i
            /\ Goto(t, "rm_lock2")
       ELSE /\ i' = [i EXCEPT ![t] = @ + 1]
            /\ Goto(t, "rm_for")
    /\ UNCHANGED <<access_token, refresh_token, refresher_stop, refresher_task,
                   headers, user_limits, arg, data, resp, tok, issued,
                   nthreads, op, pqlocals,
                   jobvars>>

rm_lock2(t) == Acquire(t, "rm_lock2", "rm_chk2")

rm_chk2(t) ==
    /\ pc[t] = "rm_chk2"
    /\ refresher_lock' = NoThread
    /\ i' = [i EXCEPT ![t] = 0]
    /\ UNCHANGED <<access_token, refresh_token, refresher_stop, refresher_task,
                   headers, user_limits, arg, data, resp, tok, issued,
                   nthreads, op, pqlocals,
                   jobvars>>
    /\ IF refresher_stop
       THEN Return(t, "None")
       ELSE Call(t, "rf_lock", "rm_for")

\* ------------------------------------------------------- __startRefresher
sr_lock(t) == Acquire(t, "sr_lock", "sr_chk")

\* A __startRefresher that never waits for the previous refresher.
JoinsNever(task, pcs) == FALSE

\* What __startRefresher does about the previous refresher: TRUE when it signals
\* it to stop and joins it.
JoinsPrevious(task, pcs) == task # NoThread /\ is_alive(pcs, task)

sr_chk(t) ==
    /\ pc[t] = "sr_chk"
    /\ IF JoinsPrevious(refresher_task, pc)
       THEN /\ refresher_stop' = TRUE
            /\ refresher_lock' = refresher_lock
            /\ Goto(t, "sr_join")
       ELSE /\ refresher_stop' = refresher_stop
            /\ refresher_lock' = NoThread
            /\ Goto(t, "sr_lock2")
    /\ UNCHANGED <<access_token, refresh_token, refresher_task, headers,
                   user_limits, locals, issued, nthreads, op>>

\* self.refresher_task.join(), inside the with block.
sr_join(t) ==
    /\ pc[t] = "sr_join"
    /\ ~is_alive(pc, refresher_task)
    /\ refresher_lock' = NoThread
    /\ Goto(t, "sr_lock2")
    /\ UNCHANGED <<access_token, refresh_token, refresher_stop, refresher_task,
                   headers, user_limits, locals, issued, nthreads, op>>

sr_lock2(t) == Acquire(t, "sr_lock2", "sr_clear")

sr_clear(t) ==
    /\ pc[t] = "sr_clear"
    /\ refresher_stop' = FALSE
    /\ refresher_lock' = NoThread
    /\ Goto(t, "sr_start")
    /\ UNCHANGED <<access_token, refresh_token, refresher_task, headers,
                   user_limits, locals, issued, nthreads, op>>

\* threading.Thread(target=self.__refresherMain, daemon=True).start()
sr_start(t) ==
    /\ pc[t] = "sr_start"
    /\ nthreads < MaxThreads
    /\ LET n == nthreads + 1 IN
       /\ refresher_task' = n
       /\ nthreads' = n
       /\ retval' = [retval EXCEPT ![t] = "None"]
       /\ pc' = [pc EXCEPT ![t] = Head(stack[t]),
                           ![n] = IF version = "planqk" THEN "pq_rm_top"
                                  ELSE "rm_for"]
       /\ stack' = [stack EXCEPT ![t] = Tail(@)]
    /\ UNCHANGED <<version, access_token, refresh_token, refresher_stop,
                   refresher_lock, headers, user_limits, locals, issued, op,
                   result>>

\* ------------------------------------------------------------- close
cl_lock(t) == Acquire(t, "cl_lock", "cl_stop")

\* A join that returns at once, whatever the thread is doing.
JoinedAtOnce(pcs, task) == TRUE

\* self.refresher_task.join() returns when the thread has ended.
Joined(pcs, task) == ~is_alive(pcs, task)

cl_stop(t) ==
    /\ pc[t] = "cl_stop"
    /\ refresher_stop' = TRUE
    /\ IF refresher_task # NoThread /\ is_alive(pc, refresher_task)
       THEN /\ refresher_lock' = refresher_lock
            /\ Goto(t, "cl_join")
       ELSE /\ refresher_lock' = NoThread
            /\ Goto(t, "cl_clrA")
    /\ UNCHANGED <<access_token, refresh_token, refresher_task, headers,
                   user_limits, locals, issued, nthreads, op>>

\* self.refresher_task.join(), inside the with block.
cl_join(t) ==
    /\ pc[t] = "cl_join"
    /\ Joined(pc, refresher_task)
    /\ refresher_lock' = NoThread
    /\ Goto(t, "cl_clrA")
    /\ UNCHANGED <<access_token, refresh_token, refresher_stop, refresher_task,
                   headers, user_limits, locals, issued, nthreads, op>>

cl_clrA(t) ==
    /\ pc[t] = "cl_clrA"
    /\ access_token' = None
    /\ Goto(t, "cl_clrR")
    /\ UNCHANGED <<refresh_token, refresher_stop, refresher_task,
                   refresher_lock,
                   headers, user_limits, locals, issued, nthreads, op>>

cl_clrR(t) ==
    /\ pc[t] = "cl_clrR"
    /\ refresh_token' = None
    /\ UNCHANGED <<access_token, refresher_stop, refresher_task, refresher_lock,
                   headers, user_limits, locals, issued, nthreads, op>>
    /\ Return(t, "None")

\* ------------------------------------------------------------- _weblogin
\* A non-200 answer of sign-in whose JSON body has a "message" field.
Rejection(s, m) ==
    [status |-> s, token |-> None, refreshToken |-> None, message |-> m]

\* The answers of sign-in: those of Answers (an error body without "message"),
\* or an error with a message.
SignInAnswers ==
    Answers \cup {Rejection(s, "Invalid credentials") : s \in ErrStatus}

\* An error that drops the message of the body.
ReasonUnknown(r) == "Unknown error"

\* reason = response.json().get("message", "Unknown error")
Reason(r) == IF "message" \in DOMAIN r THEN r.message ELSE "Unknown error"

wl_post(t) ==
    /\ pc[t] = "wl_post"
    /\ Sent(t)
    /\ Goto(t, "wl_resp")
    /\ UNCHANGED <<shared, locals, issued, nthreads>>

wl_resp(t) ==
    /\ pc[t] = "wl_resp"
    /\ \E r \in SignInAnswers :
          IF r.status # 200
          THEN /\ resp' = [resp EXCEPT ![t] = r]
               /\ err' = [status |-> r.status, reason |-> Reason(r)]
               /\ UNCHANGED <<shared, arg, data, tok, i, issued, nthreads,
                              op, pqlocals, tokenfile, web, wire, dl>>
               /\ Raise(t, "AuthenticationFailed")
          ELSE /\ resp' = [resp EXCEPT ![t] = r]
               /\ issued' = issued + 1
               /\ Goto(t, "wl_lock")
               /\ UNCHANGED <<shared, arg, data, tok, i, nthreads, op,
                              pqlocals,
                              jobvars>>

wl_lock(t) == Acquire(t, "wl_lock", "wl_setA")

wl_setA(t) ==
    /\ pc[t] = "wl_setA"
    /\ access_token' = StoredAccess(resp[t])
    /\ Goto(t, "wl_setR")
    /\ UNCHANGED <<refresh_token, refresher_stop, refresher_task,
                   refresher_lock,
                   headers, user_limits, locals, issued, nthreads, op>>

wl_setR(t) ==
    /\ pc[t] = "wl_setR"
    /\ refresh_token' = StoredRefresh(resp[t])
    /\ refresher_lock' = NoThread
    /\ Call(t, "ush_lock", "wl_uul")
    /\ UNCHANGED <<access_token, refresher_stop, refresher_task, headers,
                   user_limits, arg, data, resp, tok, i, issued, nthreads, op,
                   pqlocals,
                   jobvars>>

wl_uul(t) ==
    /\ pc[t] = "wl_uul"
    /\ Call(t, "uul_auth", "wl_sr")
    /\ UNCHANGED <<shared, locals, issued, nthreads, op>>

wl_sr(t) ==
    /\ pc[t] = "wl_sr"
    /\ Call(t, "sr_lock", "wl_ret")
    /\ UNCHANGED <<shared, locals, issued, nthreads, op>>

wl_ret(t) ==
    /\ pc[t] = "wl_ret"
    /\ UNCHANGED <<shared, locals, issued, nthreads, op>>
    /\ Return(t, "response")

\* ------------------------------------------------------------- connectUser
\* A connect flow that does not close the open session first.
ClosesNever(t, l, next) ==
    /\ pc[t] = l
    /\ Goto(t, next)
    /\ UNCHANGED <<shared, locals, issued, nthreads, op>>

\* if self.isOpen(): self.close()
ClosesFirst(t, l, next) ==
    /\ pc[t] = l
    /\ IF isOpen THEN Call(t, "cl_lock", next) ELSE Goto(t, next)
    /\ UNCHANGED <<shared, locals, issued, nthreads, op>>

cu_isOpen(t) == ClosesFirst(t, "cu_isOpen", "cu_login")

cu_login(t) ==
    /\ pc[t] = "cu_login"
    /\ Call(t, "wl_post", "cu_ret")
    /\ UNCHANGED <<shared, locals, issued, nthreads, op>>

cu_ret(t) ==
    /\ pc[t] = "cu_ret"
    /\ UNCHANGED <<shared, locals, issued, nthreads, op>>
    /\ Return(t, "self")

\* ------------------------------------------------------------- connectToken
ct_isOpen(t) == ClosesFirst(t, "ct_isOpen", "ct_lock")

ct_lock(t) == Acquire(t, "ct_lock", "ct_set")

ct_set(t) ==
    /\ pc[t] = "ct_set"
    /\ refresh_token' = arg[t]
    /\ refresher_lock' = NoThread
    /\ Call(t, "rf_lock", "ct_status")
    /\ UNCHANGED <<access_token, refresher_stop, refresher_task, headers,
                   user_limits, locals, issued, nthreads, op>>

ct_status(t) ==
    /\ pc[t] = "ct_status"
    /\ UNCHANGED <<shared, locals, issued, nthreads, op>>
    /\ IF retval[t] # "True"
       THEN Raise(t, "AuthenticationFailed")
       ELSE Call(t, "ush_lock", "ct_uul")

ct_uul(t) ==
    /\ pc[t] = "ct_uul"
    /\ Call(t, "uul_auth", "ct_sr")
    /\ UNCHANGED <<shared, locals, issued, nthreads, op>>

ct_sr(t) ==
    /\ pc[t] = "ct_sr"
    /\ Call(t, "sr_lock", "ct_ret")
    /\ UNCHANGED <<shared, locals, issued, nthreads, op>>

ct_ret(t) ==
    /\ pc[t] = "ct_ret"
    /\ UNCHANGED <<shared, locals, issued, nthreads, op>>
    /\ Return(t, "self")

\* ------------------------------------------------------------- loadtoken
\* A loadtoken that accepts the token saved for any url.
UrlMatchesAny(file) == file # NoFile

\* self.url == saved_url, for the url ("" when absent) read from the file.
UrlMatches(file) == file.url = "this"

\* The first try block: read the file and compare the urls; then connectToken
\* inside the second try block.
lt_read(t) ==
    /\ pc[t] = "lt_read"
    /\ UNCHANGED <<shared, data, resp, tok, i, issued, nthreads, op, pqlocals,
                   jobvars>>
    /\ IF UrlMatches(tokenfile)
       THEN /\ arg' = [arg EXCEPT ![t] = tokenfile.token]
            /\ Call(t, "ct_isOpen", "lt_ret")
       ELSE /\ arg' = arg
            /\ Raise(t, "TokenFileFailed")

lt_ret(t) ==
    /\ pc[t] = "lt_ret"
    /\ UNCHANGED <<shared, locals, issued, nthreads, op>>
    /\ Return(t, "self")

\* except ConnectionError: raise ConnectionError("Authentication failed. ...")
lt_err(t) ==
    /\ pc[t] = "lt_err"
    /\ err' = NoErr
    /\ UNCHANGED <<shared, arg, data, resp, tok, i, issued, nthreads, op,
                   pqlocals, tokenfile, web, wire, dl>>
    /\ Raise(t, "AuthenticationFailed")

\* ------------------------------------------------------------- savetoken
\* if self.refresh_token is None: self.connect()   (connect without arguments)
st_chk(t) ==
    /\ pc[t] = "st_chk"
    /\ IF refresh_token = None
       THEN Call(t, "cn_isOpen", "st_write")
       ELSE Goto(t, "st_write")
    /\ UNCHANGED <<shared, locals, issued, nthreads, op>>

\* json.dump({"token": self.refresh_token, "url": self.url}, f)
st_write(t) ==
    /\ pc[t] = "st_write"
    /\ tokenfile' = [url |-> "this", token |-> refresh_token]
    /\ UNCHANGED <<shared, arg, data, resp, tok, i, issued, nthreads, op,
                   pqlocals, web, wire, dl, err>>
    /\ Return(t, "None")

\* ------------------------------------------------------------- connectWeb
cw_isOpen(t) == ClosesFirst(t, "cw_isOpen", "cw_loop")

\* while self.access_token is None: httpd.handle_request()
cw_loop(t) ==
    /\ pc[t] = "cw_loop"
    /\ Goto(t, IF access_token = None THEN "cw_handle" ELSE "cw_check")
    /\ UNCHANGED <<shared, locals, issued, nthreads, op>>

\* The file system around the handler: the bundled public directory with its
\* index.html, next to handler.py, inside the package directory.
public_dir == <<"mimiqlink", "public">>
Files == {<<"mimiqlink", "public", "index.html">>, <<"mimiqlink", "handler.py">>}
Dirs == {<<>>, <<"mimiqlink">>, public_dir}

\* The path that open() follows for os.path.join(dir, segments): "" and "."
\* stay in place, ".." goes to the parent (the root is its own parent).
RECURSIVE Resolve(_, _)
Resolve(dir, segs) ==
    IF segs = <<>> THEN dir
    ELSE IF Head(segs) \in {"", "."} THEN Resolve(dir, Tail(segs))
    ELSE IF Head(segs) = ".."
         THEN Resolve(IF dir = <<>> THEN <<>> ELSE SubSeq(dir, 1, Len(dir) - 1),
                      Tail(segs))
    ELSE Resolve(Append(dir, Head(segs)), Tail(segs))

\* Request paths, as the segments between the slashes that follow the first
\* one: "/" is <<>>, "/." is <<".">>, "/../handler.py" is <<"..", "handler.py">>.
GetPaths == {<<>>, <<".">>, <<"index.html">>, <<"index.html", "x">>,
             <<"missing.js">>, <<"..", "handler.py">>, <<"..", "missing.py">>}

\* do_GET: "/" becomes "/index.html"; the file at
\* os.path.join(public_dir, self.path.lstrip("/")) is sent with 200,
\* FileNotFoundError is answered 404 and any other exception (open() of a
\* directory: IsADirectoryError; of a path through a file: NotADirectoryError)
\* is answered 500.
do_GET(path) ==
    LET filepath == Resolve(public_dir,
                            IF path = <<>> THEN <<"index.html">> ELSE path)
    IN  IF filepath \in Files
        THEN [status |-> 200, content |-> <<"file", filepath>>]
        ELSE IF \/ filepath \in Dirs
                \/ \E n \in 1..(Len(filepath) - 1) :
                      SubSeq(filepath, 1, n) \in Files
             THEN [status |-> 500, content |-> <<"error", 500>>]
             ELSE [status |-> 404, content |-> <<"error", 404>>]

\* Bodies of a POST by what json.loads(body) does with them: it returns the
\* data, raises JSONDecodeError (text that is not JSON), or raises
\* UnicodeDecodeError (bytes that are not UTF-8 text).
Bodies == {"json", "malformed", "undecodable"}

\* Requests the browser may send to the local server.
WebRequests ==
    {[method |-> "GET", path |-> p, body |-> ""] : p \in GetPaths}
        \cup {[method |-> "POST", path |-> <<"api", "login">>, body |-> b] :
                 b \in Bodies}
        \cup {[method |-> "POST", path |-> <<"other">>, body |-> "json"]}

\* The exchange of a request that is answered without the login callback:
\* do_GET, or do_POST for another path (404) or for a body that json.loads
\* rejects (400 for JSONDecodeError, 500 for any other exception).
Answered(rq) ==
    LET a == IF rq.method = "GET" THEN do_GET(rq.path)
             ELSE IF rq.path # <<"api", "login">>
                  THEN [status |-> 404, content |-> <<"error", 404>>]
                  ELSE IF rq.body = "malformed"
                       THEN [status |-> 400, content |-> <<"error", 400>>]
                       ELSE [status |-> 500, content |-> <<"error", 500>>]
    IN  [method |-> rq.method, path |-> rq.path, body |-> rq.body,
         called |-> FALSE, remote |-> NoResponse, status |-> a.status,
         content |-> a.content]

\* httpd.handle_request(): one request; a login with a JSON body runs the
\* authenticate function (_weblogin) inside do_POST's try block.
cw_handle(t) ==
    /\ pc[t] = "cw_handle"
    /\ \E rq \in WebRequests :
          IF rq.method = "POST" /\ rq.path = <<"api", "login">>
                                /\ rq.body = "json"
          THEN /\ web' = [NoWeb EXCEPT !.method = rq.method, !.path = rq.path,
                                       !.body = rq.body, !.called = TRUE]
               /\ Call(t, "wl_post", "hd_resp")
          ELSE /\ web' = Answered(rq)
               /\ Goto(t, "cw_loop")
    /\ UNCHANGED <<shared, arg, data, resp, tok, i, issued, nthreads, op,
                   pqlocals, tokenfile, wire, dl, err>>

\* do_POST: send_response(response.status_code); wfile.write(response.content)
hd_resp(t) ==
    /\ pc[t] = "hd_resp"
    /\ web' = [web EXCEPT !.remote = resp[t], !.status = resp[t].status,
                          !.content = <<"remote", resp[t]>>]
    /\ resp' = [resp EXCEPT ![t] = NoResponse]
    /\ Goto(t, "cw_loop")
    /\ UNCHANGED <<shared, arg, data, tok, i, issued, nthreads, op, pqlocals,
                   tokenfile, wire, dl, err>>

\* do_POST: except Exception: send_error(500, ...)
hd_err(t) ==
    /\ pc[t] = "hd_err"
    /\ web' = [web EXCEPT !.remote = resp[t], !.status = 500,
                          !.content = <<"error", 500>>]
    /\ resp' = [resp EXCEPT ![t] = NoResponse]
    /\ err' = NoErr
    /\ Goto(t, "cw_loop")
    /\ UNCHANGED <<shared, arg, data, tok, i, issued, nthreads, op, pqlocals,
                   tokenfile, wire, dl>>

cw_check(t) ==
    /\ pc[t] = "cw_check"
    /\ UNCHANGED <<shared, locals, issued, nthreads, op>>
    /\ IF access_token = None
       THEN Raise(t, "AuthenticationFailed")
       ELSE Return(t, "self")

\* ------------------------------------------------------------- connect
\* len(args) of a connect call.
Arities == 0..3

\* The flow connect(*args) dispatches to for len(args) = n in 0..2.
ConnectEntry(n) ==
    IF n = 0 THEN "cw_isOpen" ELSE IF n = 1 THEN "ct_isOpen" ELSE "cu_isOpen"

cn_isOpen(t) ==
    /\ pc[t] = "cn_isOpen"
    /\ UNCHANGED <<shared, locals, issued, nthreads, op>>
    /\ IF isOpen
       THEN Return(t, "self")
       ELSE IF op.nargs \in 0..2
            THEN Goto(t, ConnectEntry(op.nargs))
            ELSE Raise(t, "InvalidArguments")

\* ------------------------------------------- authenticated operations
\* AbstractConnection operations that start with self.checkAuth().
AuthOps == {"request", "requestInfo", "requests", "stopexecution",
            "deleteFiles", "downloadFile", "downloadFiles", "isJobDone"}

ao_auth(t) ==
    /\ pc[t] = "ao_auth"
    /\ Call(t, "ca_lock", "ao_send")
    /\ UNCHANGED <<shared, locals, issued, nthreads, op>>

ao_send(t) ==
    /\ pc[t] = "ao_send"
    /\ Sent(t)
    /\ Goto(t, "ao_resp")
    /\ UNCHANGED <<shared, locals, issued, nthreads>>

\* Statuses a job endpoint may answer with.
JobStatuses == {200, 201} \cup ErrStatus

\* A status check that lets every 2xx answer through.
RejectsErrors(status) == status >= 300

\* if response.status_code != 200: raise ConnectionError(...)
Rejects(status) == status # 200

\* request returns response.json()["executionRequestId"], the others what they
\* build from response.json().
ao_resp(t) ==
    /\ pc[t] = "ao_resp"
    /\ \E status \in JobStatuses :
          /\ resp' = [resp EXCEPT ![t] = [NoResponse EXCEPT !.status = status]]
          /\ UNCHANGED <<shared, arg, data, tok, i, issued, nthreads, op,
                         pqlocals, tokenfile, web, wire, dl>>
          /\ IF Rejects(status)
             THEN /\ err' = [status |-> status, reason |-> ""]
                  /\ Raise(t, "RequestFailed")
             ELSE /\ err' = err
                  /\ Return(t, IF op.name = "request" THEN "executionRequestId"
                                                     ELSE "json")

\* ------------------------------------------------------------- requestInfo
\* The metadata records the server may answer with: any number of uploaded
\* files up to MaxFiles, and no result file or MaxFiles of them.
Infos == [uploads : 0..MaxFiles, results : {0, MaxFiles}]

\* The "status" of the metadata of a request.
JobStates == {"NEW", "RUNNING", "DONE", "ERROR", "CANCELED"}
IsJobOps == {"isJobDone", "isJobFailed", "isJobStarted", "isJobCanceled"}

\* The metadata a 200 answer may carry, as far as the calling method reads it:
\* the isJob* methods read the status only, the others the file counts only.
InfoAnswers(name) ==
    IF name \in IsJobOps
    THEN {<<NoInfo, s>> : s \in JobStates}
    ELSE {<<info, "DONE">> : info \in Infos}

ri_auth(t) ==
    /\ pc[t] = "ri_auth"
    /\ Call(t, "ca_lock", "ri_get")
    /\ UNCHANGED <<shared, locals, issued, nthreads, op>>

ri_get(t) ==
    /\ pc[t] = "ri_get"
    /\ Sent(t)
    /\ wire' = Append(wire, <<"info", 0>>)
    /\ Goto(t, "ri_resp")
    /\ UNCHANGED <<shared, arg, data, resp, tok, i, issued, nthreads,
                   pqlocals, tokenfile, web, dl, err>>

ri_resp(t) ==
    /\ pc[t] = "ri_resp"
    /\ \E status \in JobStatuses, info \in InfoAnswers(op.name) :
          /\ resp' = [resp EXCEPT ![t] = [NoResponse EXCEPT !.status = status]]
          /\ UNCHANGED <<shared, arg, data, tok, i, issued, nthreads, op,
                         pqlocals, tokenfile, web, wire>>
          /\ IF Rejects(status)
             THEN /\ err' = [status |-> status, reason |-> ""]
                  /\ dl' = dl
                  /\ Raise(t, "RequestFailed")
             ELSE /\ err' = err
                  /\ dl' = [dl EXCEPT !.info = info[1], !.status = info[2]]
                  /\ Return(t, "RequestInfo")

\* ------------------------------------------------------------- isJob*
\* The boolean each isJob* method computes from the status.
JobPredicate(name, status) ==
    IF name = "isJobDone" THEN status = "DONE" \/ status = "ERROR"
    ELSE IF name = "isJobFailed" THEN status = "ERROR"
    ELSE IF name = "isJobStarted" THEN status # "NEW"
    ELSE status = "CANCELED"

\* status = infos.status() calls the str that the property RequestInfo.status
\* returns; src/mimiqlink/connection.py reads infos["status"].
StatusRaises == version # "legacy"

\* infos = self.requestInfo(request)
ij_info(t) ==
    /\ pc[t] = "ij_info"
    /\ Call(t, "ri_auth", "ij_status")
    /\ UNCHANGED <<shared, locals, issued, nthreads, op>>

ij_status(t) ==
    /\ pc[t] = "ij_status"
    /\ UNCHANGED <<shared, locals, issued, nthreads, op>>
    /\ IF StatusRaises
       THEN Raise(t, "TypeError")
       ELSE Return(t, IF JobPredicate(op.name, dl.status) THEN "True"
                                                          ELSE "False")

\* ------------------------------------------------------------- downloadFile
\* The filename the server gives to the file of index k.
FileName(k) == <<"name", k>>

\* The Content-Disposition header of a download answer: with a filename,
\* absent, or without a filename.
Dispositions == {"filename", "absent", "other"}

fl_auth(t) ==
    /\ pc[t] = "fl_auth"
    /\ Call(t, "ca_lock", "fl_get")
    /\ UNCHANGED <<shared, locals, issued, nthreads, op>>

fl_get(t) ==
    /\ pc[t] = "fl_get"
    /\ Sent(t)
    /\ wire' = Append(wire, <<"file", dl.idx>>)
    /\ Goto(t, "fl_resp")
    /\ UNCHANGED <<shared, arg, data, resp, tok, i, issued, nthreads,
                   pqlocals, tokenfile, web, dl, err>>

\* A download that takes every answer for a file.
DownloadFailsNever(status) == FALSE

\* if response.status_code >= 300: raise ConnectionError(...)
DownloadFails(status) == status >= 300

\* What the extraction of the filename raises:
\* re.findall('filename="(.+)"', response.headers.get("Content-Disposition"))[0]
\* raises TypeError on an absent header (findall of None) and IndexError when
\* nothing matches ([][0]); `if not filename: raise ConnectionError("... Server
\* is missing the filename")` follows, for a match that is empty, and a match
\* of (.+) never is.
ExtractionError(header) ==
    IF header = "absent" THEN "TypeError"
    ELSE IF header = "other" THEN "IndexError" ELSE "MissingFilename"

fl_resp(t) ==
    /\ pc[t] = "fl_resp"
    /\ \E status \in JobStatuses, header \in Dispositions :
          /\ resp' = [resp EXCEPT ![t] = [NoResponse EXCEPT !.status = status]]
          /\ UNCHANGED <<shared, arg, data, tok, i, issued, nthreads, op,
                         pqlocals, tokenfile, web, wire>>
          /\ IF DownloadFails(status)
             THEN /\ err' = [status |-> status, reason |-> ""]
                  /\ dl' = dl
                  /\ Raise(t, "DownloadFailed")
             ELSE /\ err' = err
                  /\ IF header = "filename"
                     THEN /\ dl' = [dl EXCEPT !.name = FileName(dl.idx)]
                          /\ Return(t, "filename")
                     ELSE /\ dl' = dl
                          /\ Raise(t, ExtractionError(header))

\* ------------------------------------------------------------ downloadFiles
df_auth(t) ==
    /\ pc[t] = "df_auth"
    /\ Call(t, "ca_lock", "df_info")
    /\ UNCHANGED <<shared, locals, issued, nthreads, op>>

\* infos = self.requestInfo(request)
df_info(t) ==
    /\ pc[t] = "df_info"
    /\ Call(t, "ri_auth", "df_nf")
    /\ UNCHANGED <<shared, locals, issued, nthreads, op>>

\* A count that is always the one of the results.
NumberOfResults(source, info) == info.results

\* nf = infos.get(sourcename, 0), sourcename chosen by source == "uploads".
NumberOf(source, info) ==
    IF source = "uploads" THEN info.uploads ELSE info.results

df_nf(t) ==
    /\ pc[t] = "df_nf"
    /\ dl' = [dl EXCEPT !.nf = NumberOf(dl.source, dl.info), !.idx = 0,
                         !.names = <<>>]
    /\ Goto(t, "df_for")
    /\ UNCHANGED <<shared, arg, data, resp, tok, i, issued, nthreads, op,
                   pqlocals, tokenfile, web, wire, err>>

\* for idx in range(nf): name = self.downloadFile(request, idx, source, destdir)
df_for(t) ==
    /\ pc[t] = "df_for"
    /\ UNCHANGED <<shared, locals, issued, nthreads, op>>
    /\ IF dl.idx < dl.nf
       THEN Call(t, "fl_auth", "df_append")
       ELSE Return(t, "names")

\* names.append(name)
df_append(t) ==
    /\ pc[t] = "df_append"
    /\ dl' = [dl EXCEPT !.names = Append(@, dl.name), !.idx = @ + 1,
                         !.name = None]
    /\ Goto(t, "df_for")
    /\ UNCHANGED <<shared, arg, data, resp, tok, i, issued, nthreads, op,
                   pqlocals, tokenfile, web, wire, err>>

\* ------------------------------------- close, src/mimiqlink/connection.py
lcl_lock(t) == Acquire(t, "lcl_lock", "lcl_stop")

lcl_stop(t) ==
    /\ pc[t] = "lcl_stop"
    /\ refresher_stop' = TRUE
    /\ refresher_lock' = NoThread
    /\ Goto(t, "lcl_join")
    /\ UNCHANGED <<access_token, refresh_token, refresher_task, headers,
                   user_limits, locals, issued, nthreads, op>>

\* self.refresher_task.join(), after the with block; refresher_task may be None.
lcl_join(t) ==
    /\ pc[t] = "lcl_join"
    /\ UNCHANGED <<shared, locals, issued, nthreads, op>>
    /\ IF refresher_task = NoThread
       THEN Raise(t, "AttributeError")
       ELSE /\ Joined(pc, refresher_task)
            /\ Goto(t, "cl_clrA")

\* ----------------------------------- connect, src/mimiqlink/connection.py
LegacyEntry(n) ==
    IF n = 0 THEN "cw_loop" ELSE IF n = 1 THEN "ct_lock" ELSE "cu_login"

lcn_args(t) ==
    /\ pc[t] = "lcn_args"
    /\ UNCHANGED <<shared, locals, issued, nthreads, op>>
    /\ IF op.nargs \in 0..2
       THEN Goto(t, LegacyEntry(op.nargs))
       ELSE Raise(t, "InvalidArguments")

\* ----------------------------------------------- PlanqkConnection
\* In a PlanqkConnection, access_token holds self.token (a JWTtoken or None),
\* refresher_lock is self.token_lock, and refresh_token stays None.

\* The answer of the PlanQK token endpoint: 200 with a fresh JWT, or an error.
PlanqkAnswers ==
    (IF issued < MaxIssued
     THEN {[status |-> 200, token |-> JWT(issued + 1, e), refreshToken |-> None]
              : e \in Lifetimes}
     ELSE {})
        \cup {ErrorResponse(s) : s \in ErrStatus}

\* get_planqk_token: requests.post(path, ...)
gt_post(t) ==
    /\ pc[t] = "gt_post"
    /\ Sent(t)
    /\ Goto(t, "gt_resp")
    /\ UNCHANGED <<shared, locals, issued, nthreads>>

gt_resp(t) ==
    /\ pc[t] = "gt_resp"
    /\ \E r \in PlanqkAnswers :
          IF r.status # 200
          THEN /\ UNCHANGED <<shared, locals, issued, nthreads, op>>
               /\ Raise(t, "TokenFailed")
          ELSE /\ resp' = [resp EXCEPT ![t] = r]
               /\ issued' = issued + 1
               /\ UNCHANGED <<shared, arg, data, tok, i, nthreads, op,
                              pqlocals,
                              jobvars>>
               /\ Return(t, "JWTtoken")

\* connect: if self.isOpen(): return self
pq_cn_isOpen(t) ==
    /\ pc[t] = "pq_cn_isOpen"
    /\ UNCHANGED <<shared, locals, issued, nthreads, op>>
    /\ IF isOpen THEN Return(t, "self") ELSE Goto(t, "pq_cn_creds")

\* connect: credentials from the arguments, the constructor or the environment.
pq_cn_creds(t) ==
    /\ pc[t] = "pq_cn_creds"
    /\ UNCHANGED <<shared, arg, data, resp, tok, i, sleep_time, jobvars,
                   issued, nthreads, op>>
    /\ \E env \in BOOLEAN :
          LET have == op.nargs = 2 \/ consumer_key \/ env IN
          /\ consumer_key' = have
          /\ IF have
             THEN Call(t, "gt_post", "pq_cn_lock")
             ELSE Raise(t, "NoCredentials")

pq_cn_lock(t) == Acquire(t, "pq_cn_lock", "pq_cn_set")

pq_cn_set(t) ==
    /\ pc[t] = "pq_cn_set"
    /\ access_token' = resp[t].token
    /\ refresher_lock' = NoThread
    /\ resp' = [resp EXCEPT ![t] = NoResponse]
    /\ Call(t, "ush_lock", "pq_cn_sr")
    /\ UNCHANGED <<refresh_token, refresher_stop, refresher_task, headers,
                   user_limits, arg, data, tok, i, issued, nthreads, op,
                   pqlocals,
                   jobvars>>

pq_cn_sr(t) ==
    /\ pc[t] = "pq_cn_sr"
    /\ Call(t, "pq_sr_lock", "pq_cn_ret")
    /\ UNCHANGED <<shared, locals, issued, nthreads, op>>

pq_cn_ret(t) ==
    /\ pc[t] = "pq_cn_ret"
    /\ UNCHANGED <<shared, locals, issued, nthreads, op>>
    /\ Return(t, "self")

\* __startRefresher: the whole with block, whose join waits inside it.
pq_sr_lock(t) == Acquire(t, "pq_sr_lock", "pq_sr_chk")

pq_sr_chk(t) ==
    /\ pc[t] \in {"pq_sr_chk", "pq_sr_join"}
    /\ IF pc[t] = "pq_sr_chk" /\ JoinsPrevious(refresher_task, pc)
       THEN /\ refresher_stop' = TRUE
            /\ refresher_lock' = refresher_lock
            /\ Goto(t, "pq_sr_join")
       ELSE /\ ~is_alive(pc, refresher_task)
            /\ refresher_stop' = FALSE
            /\ refresher_lock' = NoThread
            /\ Goto(t, "sr_start")
    /\ UNCHANGED <<access_token, refresh_token, refresher_task, headers,
                   user_limits, locals, issued, nthreads, op>>

\* __refresherMain: while True: with self.token_lock: token = self.token
pq_rm_top(t) == Acquire(t, "pq_rm_top", "pq_rm_read")

\* A refresher that sleeps for the whole lifetime of the token.
SleepTimeWhole(token) == expires_in(token)

\* sleep_time = int(token.expires_in * 0.8)
SleepTime(token) == (expires_in(token) * 8) \div 10

pq_rm_read(t) ==
    /\ pc[t] = "pq_rm_read"
    /\ refresher_lock' = NoThread
    /\ i' = [i EXCEPT ![t] = 0]
    /\ UNCHANGED <<access_token, refresh_token, refresher_stop, refresher_task,
                   headers, user_limits, arg, data, resp, tok, consumer_key,
                   jobvars, issued, nthreads, op>>
    /\ IF access_token = None
       THEN /\ sleep_time' = sleep_time
            /\ Return(t, "None")
       ELSE /\ sleep_time' = [sleep_time EXCEPT ![t] = SleepTime(access_token)]
            /\ Goto(t, "pq_rm_for")

\* for _ in range(sleep_time): time.sleep(1); with self.token_lock:
pq_rm_for(t) ==
    /\ pc[t] = "pq_rm_for"
    /\ IF i[t] < sleep_time[t]
       THEN /\ refresher_lock = NoThread
            /\ refresher_lock' = t
            /\ Goto(t, "pq_rm_chk")
       ELSE /\ refresher_lock' = refresher_lock
            /\ Goto(t, "pq_rm_lock2")
    /\ UNCHANGED <<access_token, refresh_token, refresher_stop, refresher_task,
                   headers, user_limits, locals, issued, nthreads, op>>

pq_rm_chk(t) ==
    /\ pc[t] = "pq_rm_chk"
    /\ refresher_lock' = NoThread
    /\ IF refresher_stop
       THEN /\ i' = i
            /\ Goto(t, "pq_rm_lock2")
       ELSE /\ i' = [i EXCEPT ![t] = @ + 1]
            /\ Goto(t, "pq_rm_for")
    /\ UNCHANGED <<access_token, refresh_token, refresher_stop, refresher_task,
                   headers, user_limits, arg, data, resp, tok, issued,
                   nthreads, op, pqlocals,
                   jobvars>>

pq_rm_lock2(t) == Acquire(t, "pq_rm_lock2", "pq_rm_chk2")

pq_rm_chk2(t) ==
    /\ pc[t] = "pq_rm_chk2"
    /\ refresher_lock' = NoThread
    /\ UNCHANGED <<access_token, refresh_token, refresher_stop, refresher_task,
                   headers, user_limits, locals, issued, nthreads, op>>
    /\ IF refresher_stop
       THEN Return(t, "None")
       ELSE Call(t, "gt_post", "pq_rm_got")

\* try: new_token = get_planqk_token(...); with self.token_lock:
pq_rm_got(t) == Acquire(t, "pq_rm_got", "pq_rm_set")

pq_rm_set(t) ==
    /\ pc[t] = "pq_rm_set"
    /\ access_token' = resp[t].token
    /\ refresher_lock' = NoThread
    /\ resp' = [resp EXCEPT ![t] = NoResponse]
    /\ Call(t, "ush_lock", "pq_rm_done")
    /\ UNCHANGED <<refresh_token, refresher_stop, refresher_task, headers,
                   user_limits, arg, data, tok, i, issued, nthreads, op,
                   pqlocals,
                   jobvars>>

pq_rm_done(t) ==
    /\ pc[t] = "pq_rm_done"
    /\ Goto(t, "pq_rm_top")
    /\ UNCHANGED <<shared, locals, issued, nthreads, op>>

\* except Exception as e: getLogger().error(...)
pq_rm_err(t) ==
    /\ pc[t] = "pq_rm_err"
    /\ Goto(t, "pq_rm_top")
    /\ UNCHANGED <<shared, locals, issued, nthreads, op>>

\* close: the whole with block, whose join waits inside it.
pq_cl_lock(t) == Acquire(t, "pq_cl_lock", "pq_cl_stop")

pq_cl_stop(t) ==
    /\ pc[t] \in {"pq_cl_stop", "pq_cl_join"}
    /\ refresher_stop' = TRUE
    /\ UNCHANGED <<refresh_token, refresher_task, headers, user_limits, locals,
                   issued, nthreads, op>>
    /\ IF pc[t] = "pq_cl_stop" /\ refresher_task # NoThread
                               /\ is_alive(pc, refresher_task)
       THEN /\ UNCHANGED <<access_token, refresher_lock>>
            /\ Goto(t, "pq_cl_join")
       ELSE /\ ~is_alive(pc, refresher_task)
            /\ access_token' = None
            /\ refresher_lock' = NoThread
            /\ Return(t, "None")

\* ------------------------------------------------- calls of the foreground
Begin(name, n, entry) ==
    /\ pc[Main] = "idle"
    /\ op' = [name |-> name, nargs |-> n, noauth |-> (access_token = None),
              sent |-> FALSE]
    /\ pc' = [pc EXCEPT ![Main] = entry]
    /\ UNCHANGED <<version, shared, stack, data, resp, tok, i, retval, issued,
                   nthreads, result, pqlocals, tokenfile, web, wire, err>>

\* Refresh tokens a caller may hand to connectToken: a foreign one, or the one
\* the session holds.
CallerTokens == {RT(0)} \cup ({refresh_token} \ {None})

\* The first statement of a public method in the session's version.
Entry(current, legacy) == IF version = "current" THEN current ELSE legacy
IsMimiq == version \in {"current", "legacy"}

connectUser ==
    /\ IsMimiq
    /\ nthreads < MaxThreads
    /\ Begin("connectUser", 2, Entry("cu_isOpen", "cu_login"))
    /\ UNCHANGED <<arg, dl>>

connectToken ==
    /\ IsMimiq
    /\ nthreads < MaxThreads
    /\ \E rt \in CallerTokens :
          /\ Begin("connectToken", 1, Entry("ct_isOpen", "ct_lock"))
          /\ arg' = [arg EXCEPT ![Main] = rt]
          /\ dl' = dl

connectWeb ==
    /\ IsMimiq
    /\ nthreads < MaxThreads
    /\ Begin("connectWeb", 0, Entry("cw_isOpen", "cw_loop"))
    /\ UNCHANGED <<arg, dl>>

connect ==
    /\ IsMimiq
    /\ nthreads < MaxThreads
    /\ \E n \in Arities :
          /\ Begin("connect", n, Entry("cn_isOpen", "lcn_args"))
          /\ arg' = [arg EXCEPT ![Main] = IF n = 1 THEN RT(0) ELSE None]
          /\ dl' = dl

\* PlanqkConnection.connect(consumer_key, consumer_secret), both or none given.
pq_connect ==
    /\ version = "planqk"
    /\ nthreads < MaxThreads
    /\ \E n \in {0, 2} :
          /\ Begin("connect", n, "pq_cn_isOpen")
          /\ UNCHANGED <<arg, dl>>

loadtoken ==
    /\ version = "current"
    /\ nthreads < MaxThreads
    /\ Begin("loadtoken", 1, "lt_read")
    /\ UNCHANGED <<arg, dl>>

\* savetoken(filepath): op.nargs is the number of arguments of its connect().
savetoken ==
    /\ version = "current"
    /\ refresh_token # None \/ nthreads < MaxThreads
    /\ Begin("savetoken", 0, "st_chk")
    /\ UNCHANGED <<arg, dl>>

close ==
    /\ Begin("close", 0, IF version = "planqk" THEN "pq_cl_lock"
                         ELSE Entry("cl_lock", "lcl_lock"))
    /\ UNCHANGED <<arg, dl>>

refresh ==
    /\ IsMimiq
    /\ Begin("refresh", 0, "rf_lock")
    /\ UNCHANGED <<arg, dl>>

checkAuth ==
    /\ Begin("checkAuth", 0, "ca_lock")
    /\ UNCHANGED <<arg, dl>>

requestInfo ==
    /\ Begin("requestInfo", 1, "ri_auth")
    /\ UNCHANGED <<arg, dl>>

\* downloadFile(request, index, filetype, destdir)
downloadFile ==
    /\ \E k \in 0..(MaxFiles - 1) :
          /\ Begin("downloadFile", 4, "fl_auth")
          /\ dl' = [NoDownload EXCEPT !.idx = k]
    /\ arg' = arg

\* downloadFiles(request, source, destdir)
downloadFiles ==
    /\ \E source \in {"uploads", "results"} :
          /\ Begin("downloadFiles", 3, "df_auth")
          /\ dl' = [NoDownload EXCEPT !.source = source]
    /\ arg' = arg

AuthenticatedOp ==
    \E name \in AuthOps \ ({"requestInfo", "downloadFile", "downloadFiles"}
                              \cup IsJobOps) :
       /\ Begin(name, 0, "ao_auth")
       /\ UNCHANGED <<arg, dl>>

\* isJobDone(request), isJobFailed, isJobStarted, isJobCanceled
isJob ==
    /\ \E name \in IsJobOps : Begin(name, 1, "ij_info")
    /\ UNCHANGED <<arg, dl>>

\* isOpen() of src/mimiqlink/connection.py calls self.refresher_task.is_alive()
\* whatever refresher_task is.
isOpenRaises == version = "legacy" /\ refresher_task = NoThread

\* isOpen() called by the foreground: evaluated in one step.
isOpenCall ==
    /\ pc[Main] = "idle"
    /\ pc' = [pc EXCEPT ![Main] = "done"]
    /\ result' = [op |-> "isOpen",
                  outcome |-> IF isOpenRaises THEN "raised" ELSE "ok",
                  exc |-> IF isOpenRaises THEN "AttributeError" ELSE "",
                  open |-> isOpen,
                  noauth |-> (access_token = None), sent |-> FALSE]
    /\ UNCHANGED <<version, shared, stack, locals, retval, issued, nthreads,
                   op>>

\* The caller takes the outcome and is ready for the next call.
Ack ==
    /\ pc[Main] = "done"
    /\ pc' = [pc EXCEPT ![Main] = "idle"]
    /\ result' = NoResult
    /\ op' = NoOp
    /\ retval' = [retval EXCEPT ![Main] = ""]
    /\ arg' = [arg EXCEPT ![Main] = None]
    /\ resp' = [resp EXCEPT ![Main] = NoResponse]
    /\ wire' = <<>>
    /\ dl' = NoDownload
    /\ err' = NoErr
    /\ web' = NoWeb
    /\ UNCHANGED <<version, shared, stack, data, tok, i, issued,
                   nthreads, pqlocals, tokenfile>>

\* ------------------------------------------------------------- steps
\* One step of the code that both versions of MimiqConnection share.
CoreStep(t) ==
    \/ ush_lock(t) \/ ush_read(t) \/ ush_set(t)
    \/ ca_lock(t) \/ ca_chk(t)
    \/ uul_auth(t) \/ uul_get(t) \/ uul_resp(t)
    \/ rf_lock(t) \/ rf_read(t) \/ rf_post(t) \/ rf_resp(t)
    \/ rf_lock2(t) \/ rf_setA(t) \/ rf_setR(t) \/ rf_uul(t) \/ rf_ret(t)
    \/ rm_for(t) \/ rm_chk(t) \/ rm_lock2(t) \/ rm_chk2(t)
    \/ sr_lock(t) \/ sr_chk(t) \/ sr_lock2(t) \/ sr_clear(t)
    \/ sr_start(t)
    \/ wl_post(t) \/ wl_resp(t) \/ wl_lock(t) \/ wl_setA(t) \/ wl_setR(t)
    \/ wl_uul(t) \/ wl_sr(t) \/ wl_ret(t)
    \/ cu_login(t) \/ cu_ret(t)
    \/ ct_lock(t) \/ ct_set(t) \/ ct_status(t) \/ ct_uul(t) \/ ct_sr(t)
    \/ ct_ret(t)
    \/ cw_loop(t) \/ cw_handle(t) \/ hd_resp(t) \/ hd_err(t) \/ cw_check(t)
    \/ ao_auth(t) \/ ao_send(t) \/ ao_resp(t)

\* One step of thread t.
Step(t) ==
    \/ CoreStep(t)
    \/ cl_lock(t) \/ cl_stop(t) \/ cl_join(t) \/ cl_clrA(t) \/ cl_clrR(t)
    \/ cu_isOpen(t) \/ ct_isOpen(t) \/ cw_isOpen(t) \/ cn_isOpen(t)
    \/ sr_join(t)
    \/ lt_read(t) \/ lt_ret(t) \/ lt_err(t)
    \/ st_chk(t) \/ st_write(t)
    \/ ri_auth(t) \/ ri_get(t) \/ ri_resp(t)
    \/ ij_info(t) \/ ij_status(t)
    \/ fl_auth(t) \/ fl_get(t) \/ fl_resp(t)
    \/ df_auth(t) \/ df_info(t) \/ df_nf(t) \/ df_for(t) \/ df_append(t)
    \/ lcl_lock(t) \/ lcl_stop(t) \/ lcl_join(t) \/ lcn_args(t)
    \/ gt_post(t) \/ gt_resp(t)
    \/ pq_cn_isOpen(t) \/ pq_cn_creds(t) \/ pq_cn_lock(t) \/ pq_cn_set(t)
    \/ pq_cn_sr(t) \/ pq_cn_ret(t)
    \/ pq_sr_lock(t) \/ pq_sr_chk(t)
    \/ pq_rm_top(t) \/ pq_rm_read(t) \/ pq_rm_for(t) \/ pq_rm_chk(t)
    \/ pq_rm_lock2(t) \/ pq_rm_chk2(t) \/ pq_rm_got(t) \/ pq_rm_set(t)
    \/ pq_rm_done(t) \/ pq_rm_err(t)
    \/ pq_cl_lock(t) \/ pq_cl_stop(t)

Calls ==
    \/ connectUser \/ connectToken \/ connectWeb \/ connect \/ pq_connect
    \/ loadtoken \/ savetoken \/ requestInfo \/ downloadFile \/ downloadFiles \/ isJob
    \/ close \/ refresh \/ checkAuth \/ AuthenticatedOp \/ isOpenCall

Next ==
    \/ \E t \in Threads : Step(t)
    \/ Calls
    \/ Ack

Spec == Init /\ [][Next]_vars

\* ------------------------------------- mimiqlib, src/mimiqlib/mimiqlink.py
\* The Timer-based MimiqConnection: no lock, no stop flag; refresher_task is
\* the threading.Timer (a thread that waits, calls refresh once and ends).

\* authenticate: response = self.session.post(url + "/api/sign-in", ...)
au_post(t) ==
    /\ pc[t] = "au_post"
    /\ Sent(t)
    /\ Goto(t, "au_resp")
    /\ UNCHANGED <<shared, locals, issued, nthreads>>

\* tokens = response.json(); tokens["token"] of an error body raises KeyError.
au_resp(t) ==
    /\ pc[t] = "au_resp"
    /\ \E r \in Answers :
          IF r.status # 200
          THEN /\ UNCHANGED <<shared, locals, issued, nthreads, op>>
               /\ Raise(t, "KeyError")
          ELSE /\ resp' = [resp EXCEPT ![t] = r]
               /\ issued' = issued + 1
               /\ Goto(t, "au_setA")
               /\ UNCHANGED <<shared, arg, data, tok, i, nthreads, op,
                              pqlocals, jobvars>>

au_setA(t) ==
    /\ pc[t] = "au_setA"
    /\ access_token' = resp[t].token
    /\ Goto(t, "au_setR")
    /\ UNCHANGED <<refresh_token, refresher_stop, refresher_task,
                   refresher_lock, headers, user_limits, locals, issued,
                   nthreads, op>>

au_setR(t) ==
    /\ pc[t] = "au_setR"
    /\ refresh_token' = resp[t].refreshToken
    /\ resp' = [resp EXCEPT ![t] = NoResponse]
    /\ Goto(t, "au_start")
    /\ UNCHANGED <<access_token, refresher_stop, refresher_task,
                   refresher_lock, headers, user_limits, arg, data, tok, i,
                   issued, nthreads, op, pqlocals, jobvars>>

\* start_refresher: threading.Timer(self.refresher_interval, self.refresh).start()
au_start(t) ==
    /\ pc[t] = "au_start"
    /\ nthreads < MaxThreads
    /\ LET n == nthreads + 1 IN
       /\ refresher_task' = n
       /\ nthreads' = n
       /\ pc' = [pc EXCEPT ![t] = "done", ![n] = "tm_wait"]
    /\ retval' = [retval EXCEPT ![t] = "None"]
    /\ UNCHANGED <<version, access_token, refresh_token, refresher_stop,
                   refresher_lock, headers, user_limits, stack, locals,
                   issued, op>>
    /\ result' = Finished("ok", "")

\* The Timer's interval has passed: it calls self.refresh().
tm_fire(t) ==
    /\ pc[t] = "tm_wait"
    /\ Goto(t, "lr_read")
    /\ UNCHANGED <<shared, locals, issued, nthreads, op>>

\* refresh: data = {"refreshToken": self.refresh_token}
lr_read(t) ==
    /\ pc[t] = "lr_read"
    /\ data' = [data EXCEPT ![t] = refresh_token]
    /\ Goto(t, "lr_post")
    /\ UNCHANGED <<shared, arg, resp, tok, i, issued, nthreads, op, pqlocals,
                   jobvars>>

lr_post(t) ==
    /\ pc[t] = "lr_post"
    /\ Sent(t)
    /\ Goto(t, "lr_resp")
    /\ UNCHANGED <<shared, locals, issued, nthreads>>

lr_resp(t) ==
    /\ pc[t] = "lr_resp"
    /\ \E r \in Answers :
          IF r.status # 200
          THEN /\ data' = [data EXCEPT ![t] = None]
               /\ UNCHANGED <<shared, arg, resp, tok, i, issued, nthreads, op,
                              pqlocals, jobvars>>
               /\ Raise(t, "KeyError")
          ELSE /\ resp' = [resp EXCEPT ![t] = r]
               /\ data' = [data EXCEPT ![t] = None]
               /\ issued' = issued + 1
               /\ Goto(t, "lr_setA")
               /\ UNCHANGED <<shared, arg, tok, i, nthreads, op, pqlocals,
                              jobvars>>

lr_setA(t) ==
    /\ pc[t] = "lr_setA"
    /\ access_token' = resp[t].token
    /\ Goto(t, "lr_setR")
    /\ UNCHANGED <<refresh_token, refresher_stop, refresher_task,
                   refresher_lock, headers, user_limits, locals, issued,
                   nthreads, op>>

\* The last statement of refresh: nothing starts another Timer.
lr_setR(t) ==
    /\ pc[t] = "lr_setR"
    /\ refresh_token' = resp[t].refreshToken
    /\ resp' = [resp EXCEPT ![t] = NoResponse]
    /\ UNCHANGED <<access_token, refresher_stop, refresher_task,
                   refresher_lock, headers, user_limits, arg, data, tok, i,
                   issued, nthreads, op, pqlocals, jobvars>>
    /\ Return(t, "None")

\* cancel_refresher: Timer.cancel() stops a Timer that is still waiting.
cr_cancel(t) ==
    /\ pc[t] = "cr_cancel"
    /\ refresher_task' = NoThread
    /\ pc' = [x \in Threads |->
                IF x = t THEN "done"
                ELSE IF x = refresher_task /\ pc[x] = "tm_wait" THEN "dead"
                ELSE pc[x]]
    /\ retval' = [retval EXCEPT ![t] = "None"]
    /\ UNCHANGED <<version, access_token, refresh_token, refresher_stop,
                   refresher_lock, headers, user_limits, stack, locals,
                   issued, nthreads, op>>
    /\ result' = Finished("ok", "")

authenticate ==
    /\ nthreads < MaxThreads
    /\ Begin("authenticate", 2, "au_post")
    /\ UNCHANGED <<arg, dl>>

cancel_refresher ==
    /\ Begin("cancel_refresher", 0, "cr_cancel")
    /\ UNCHANGED <<arg, dl>>

lib_refresh ==
    /\ Begin("refresh", 0, "lr_read")
    /\ UNCHANGED <<arg, dl>>

LibStep(t) ==
    \/ au_post(t) \/ au_resp(t) \/ au_setA(t) \/ au_setR(t) \/ au_start(t)
    \/ tm_fire(t)
    \/ lr_read(t) \/ lr_post(t) \/ lr_resp(t) \/ lr_setA(t) \/ lr_setR(t)
    \/ cr_cancel(t)

LibNext ==
    \/ \E t \in Threads : LibStep(t)
    \/ authenticate \/ cancel_refresher \/ lib_refresh
    \/ Ack

InitLib == Constructed("mimiqlib")

SpecLib == InitLib /\ [][LibNext]_vars


\* ------------------------------------------------------------- claims
ConnectFlows == {"connectUser", "connectToken", "connectWeb"}
AliveRefreshers == {t \in Refreshers : pc[t] \notin {"unborn", "dead"}}
\* The stored tokens are both None, or the two halves of one server answer.
PairConsistent ==
    \/ access_token = None /\ refresh_token = None
    \/ \E k \in 1..MaxIssued : access_token = AT(k) /\ refresh_token = RT(k)

\* C1: in MimiqConnection (current), isOpen() is false on a session that never
\* connected, true right after each of connectUser, connectToken and connectWeb
\* returns without raising, and false right after close() returns.
C1_IsOpenLifecycle ==
    version = "current" =>
        /\ (result.op = "isOpen" /\ nthreads = 0 /\ issued = 0) => ~result.open
        /\ (result.op \in ConnectFlows /\ result.outcome = "ok") => result.open
        /\ (result.op = "close" /\ result.outcome = "ok") => ~result.open

\* C2: in MimiqConnection (current) and PlanqkConnection, a close() that waits
\* for the refresher is never stuck (the refresher it joins, or close itself,
\* can take a step), and when close() has returned no refresher is alive and
\* both tokens are None.
C2_CloseReturns ==
    version \in {"current", "planqk"} =>
        /\ (op.name = "close" /\ pc[Main] \in {"cl_join", "pq_cl_join"})
              => (ENABLED Step(Main) \/ ENABLED Step(refresher_task))
        /\ (result.op = "close" /\ result.outcome = "ok")
              => (AliveRefreshers = {} /\ access_token = None
                    /\ refresh_token = None)

\* C3: every close() call, in whatever state of the session, returns without
\* raising and leaves isOpen() false.
C3_CloseTwice ==
    result.op = "close" => (result.outcome = "ok" /\ ~result.open)

C5_PairInstalled ==
    [][\A t \in Threads :
          /\ pc[t] \in {"rf_setA", "rf_setR", "wl_setA", "wl_setR"}
                => refresher_lock = t
          /\ (pc[t] \in {"rf_setR", "wl_setR"} /\ pc'[t] # pc[t])
                => /\ access_token' = resp[t].token
                   /\ refresh_token' = resp[t].refreshToken]_vars

\* C5 witness: a refresher tick has just left the critical section in which it
\* replaced the first pair by the second.
C5_Witness ==
    \E t \in Refreshers :
       /\ pc[t] = "ush_lock"
       /\ refresher_lock = NoThread
       /\ access_token = AT(2)
       /\ refresh_token = RT(2)

\* C6: the refresh request of connectToken(rt) carries rt, and every refresh
\* tick of the refresher posts the refresh token most recently installed (the
\* one the store holds when the request leaves).
C6_RefreshPosts ==
    version = "current" =>
        /\ (op.name = "connectToken" /\ pc[Main] = "rf_post")
              => data[Main] = arg[Main]
        /\ \A t \in Refreshers : pc[t] = "rf_post" => data[t] = refresh_token

\* C7: isOpen() never raises, and it is true exactly when a refresher thread of
\* the session is alive and the access token is not None.
C7_IsOpenIff ==
    /\ result.op = "isOpen" => result.outcome = "ok"
    /\ isOpen <=> (AliveRefreshers # {} /\ access_token # None)

\* C8: at most one refresher thread of the session is alive at any time.
C8_OneRefresher == Cardinality(AliveRefreshers) <= 1

\* C8 witness: a second refresher has been started, after the first one ended.
C8_Witness ==
    /\ nthreads = 2
    /\ pc[1] = "dead"
    /\ AliveRefreshers = {2}

\* Positions of MimiqConnection at which the next statement reads or writes
\* access_token or refresh_token.
TokenAccess == {"ush_read", "ca_chk", "rf_read", "rf_setA", "rf_setR",
                "wl_setA", "wl_setR", "ct_set", "cw_isOpen", "cw_loop",
                "cw_check", "cu_isOpen", "ct_isOpen", "cn_isOpen",
                "cl_clrA", "cl_clrR"}

\* C9: in MimiqConnection (current), a thread about to read or write
\* access_token or refresh_token holds refresher_lock.
C9_LockedAccess ==
    version = "current" =>
        \A t \in Threads : pc[t] \in TokenAccess => refresher_lock = t

\* C10: in MimiqConnection (current), outside the critical section of a writer
\* (the lock is free, or a thread holds it to read a token) the stored tokens
\* are both None or the two halves of one server answer.
C10_NoHalfPair ==
    version = "current" =>
        \A t \in Threads :
           (\/ refresher_lock = NoThread
            \/ refresher_lock = t /\ pc[t] \in {"ush_read", "ca_chk", "rf_read"})
              => PairConsistent

\* C11: in MimiqConnection (current) and PlanqkConnection, the step of
\* connect(...) that finds the session open (its refresher alive, a token
\* installed) returns self at once: nothing was sent, and the tokens, the
\* headers, the stop flag, the lock and the refresher are unchanged.
C11_ConnectOpenNoop ==
    [][(/\ version \in {"current", "planqk"}
        /\ pc[Main] \in {"cn_isOpen", "pq_cn_isOpen"}
        /\ refresher_task \in AliveRefreshers
        /\ access_token # None
        /\ pc'[Main] # pc[Main])
          => /\ pc'[Main] = "done"
             /\ result'.outcome = "ok"
             /\ retval'[Main] = "self"
             /\ ~result'.sent
             /\ UNCHANGED <<access_token, refresh_token, headers, refresher_task,
                            refresher_stop, refresher_lock, nthreads>>]_vars

\* C11 witness: a connect call on an open session has returned without
\* sending anything, and the session is still open.
C11_Witness ==
    /\ result.op = "connect"
    /\ result.outcome = "ok"
    /\ ~result.sent
    /\ result.open
    /\ retval[Main] = "self"

\* C12: in MimiqConnection (both files), a connect call with a number of
\* arguments outside 0..2 ends by raising the invalid-arguments error.
C12_InvalidArity ==
    (IsMimiq /\ result.op = "connect" /\ op.nargs \notin 0..2)
        => (result.outcome = "raised" /\ result.exc = "InvalidArguments")

\* C13: in MimiqConnection (current), when the access-token endpoint answers
\* the refresh of connectToken(rt) with a status other than 200, the call has
\* ended by raising an authentication error, no refresher thread is alive and
\* isOpen() is false.
C13_ConnectTokenFails ==
    (version = "current" /\ op.name = "connectToken" /\ err.status # 0)
        => /\ pc[Main] = "done"
           /\ result.op = "connectToken"
           /\ result.outcome = "raised"
           /\ result.exc \in {"RefreshFailed", "AuthenticationFailed"}
           /\ AliveRefreshers = {}
           /\ ~result.open
           /\ ~isOpen

\* C13 witness: connectToken, called on a session that had started a refresher
\* before, posted the refresh token, was answered 400 and has raised.
C13_Witness ==
    /\ version = "current"
    /\ result.op = "connectToken"
    /\ result.outcome = "raised"
    /\ err.status = 400
    /\ nthreads > 0
    /\ result.sent

\* C14: in MimiqConnection (current), the step in which connectUser receives a
\* non-200 answer of sign-in ends the call with an authentication error that
\* carries the status of the answer and the message of its body; the tokens,
\* the Authorization header and the refresher are left as they were.
C14_SignInRejected ==
    [][(/\ version = "current"
        /\ op.name = "connectUser"
        /\ pc[Main] = "wl_resp"
        /\ pc'[Main] # "wl_resp"
        /\ resp'[Main].status # 200)
          => /\ pc'[Main] = "done"
             /\ result'.outcome = "raised"
             /\ result'.exc = "AuthenticationFailed"
             /\ err'.status = resp'[Main].status
             /\ "message" \in DOMAIN resp'[Main]
                    => err'.reason = resp'[Main].message
             /\ UNCHANGED <<access_token, refresh_token, headers,
                            refresher_task, refresher_stop, nthreads>>]_vars

\* C14 witness: connectUser, called on an open session, closed it, was
\* answered 400 with a message, and has raised with that status and message.
C14_Witness ==
    /\ version = "current"
    /\ result.op = "connectUser"
    /\ result.outcome = "raised"
    /\ err = [status |-> 400, reason |-> "Invalid credentials"]
    /\ nthreads > 0
    /\ headers # None
    /\ access_token = None

\* C15: in MimiqConnection (current), a refresher thread that has ended has
\* left its loop through the stop flag (it returned); it was not ended by a
\* failure of refresh().
C15_RefresherSurvives ==
    version = "current" =>
        \A t \in Refreshers : pc[t] = "dead" => retval[t] = "None"

\* C16: in MimiqConnection (both files), a __startRefresher that has signalled
\* the running refresher to stop and waits for it is never stuck: the refresher
\* it joins, or the start itself, can take a step.
C16_StartCompletes ==
    (IsMimiq /\ pc[Main] = "sr_join")
        => (ENABLED Step(Main) \/ ENABLED Step(refresher_task))

\* C17: in MimiqConnection (current), the step of loadtoken that finds in the
\* token file a url other than the session's ends the call with an
\* authentication error; no request was sent, and the tokens, the header and
\* the refresher are unchanged.
C17_LoadTokenMismatch ==
    [][(/\ version = "current"
        /\ pc[Main] = "lt_read"
        /\ tokenfile # NoFile
        /\ tokenfile.url # "this"
        /\ pc'[Main] # pc[Main])
          => /\ pc'[Main] = "done"
             /\ result'.outcome = "raised"
             /\ result'.exc = "TokenFileFailed"
             /\ ~result'.sent
             /\ UNCHANGED <<access_token, refresh_token, headers,
                            refresher_task, refresher_stop, refresher_lock,
                            nthreads>>]_vars

\* C17 witness: loadtoken, called on an open session with a token file saved
\* for another url, has raised and the session is still open.
C17_Witness ==
    /\ result.op = "loadtoken"
    /\ result.exc = "TokenFileFailed"
    /\ tokenfile.url = "other"
    /\ ~result.sent
    /\ result.open

C19_DownloadsInOrder ==
    op.name = "downloadFiles" =>
        LET n == IF dl.source = "uploads" THEN dl.info.uploads
                                          ELSE dl.info.results
        IN  /\ \A k \in 1..Len(wire) :
                  wire[k] = IF k = 1 THEN <<"info", 0>> ELSE <<"file", k - 2>>
            /\ Len(wire) >= 2 => Len(wire) <= n + 1
            /\ (result.op = "downloadFiles" /\ result.outcome = "ok")
                  => /\ Len(wire) = n + 1
                     /\ retval[Main] = "names"
                     /\ Len(dl.names) = n
                     /\ \A k \in 1..n : dl.names[k] = FileName(k - 1)

\* C19 witness: downloadFiles has returned the names of MaxFiles uploaded files
\* of a request that has fewer result files.
C19_Witness ==
    /\ result.op = "downloadFiles"
    /\ result.outcome = "ok"
    /\ dl.source = "uploads"
    /\ dl.info.results < MaxFiles
    /\ Len(dl.names) = MaxFiles
    /\ Len(wire) = MaxFiles + 1

\* C20: when a download GET of downloadFiles is answered with a failure (a
\* status of 300 or more), the call has ended by raising: the failed GET is the
\* last request sent, for the index the loop had reached, and no list is
\* returned; and however downloadFiles raises after a download GET, that GET
\* is the last one.
C20_DownloadAborts ==
    (op.name = "downloadFiles" /\ Len(wire) >= 2) =>
        /\ resp[Main].status >= 300
              => /\ pc[Main] = "done"
                 /\ result.outcome = "raised"
                 /\ result.exc = "DownloadFailed"
        /\ (result.op = "downloadFiles" /\ result.outcome = "raised")
              => /\ wire[Len(wire)] = <<"file", dl.idx>>
                 /\ Len(wire) = dl.idx + 2
                 /\ Len(dl.names) = dl.idx
                 /\ retval[Main] # "names"

\* C20 witness: the download of the first of two files failed with status 400
\* and downloadFiles has raised after a single download GET.
C20_Witness ==
    /\ result.op = "downloadFiles"
    /\ result.outcome = "raised"
    /\ result.exc = "DownloadFailed"
    /\ dl.nf = MaxFiles
    /\ dl.idx = 0
    /\ wire = << <<"info", 0>>, <<"file", 0>> >>

\* C21: a downloadFile whose GET was answered with a success status and
\* without a filename in Content-Disposition (no name was extracted, no file
\* written) has raised the error for a missing filename.
C21_MissingFilename ==
    (/\ result.op = "downloadFile"
     /\ resp[Main].status \in 200..299
     /\ dl.name = None)
        => (result.outcome = "raised" /\ result.exc = "MissingFilename")

\* C22: when the local server has answered a POST /api/login with a JSON body,
\* the status and the content it sent to the browser are those of the answer
\* of the remote sign-in.
C22_LoginMirrored ==
    (web.called /\ web.status # 0)
        => /\ web.status = web.remote.status
           /\ web.content = <<"remote", web.remote>>

\* C23: the local server has answered a POST /api/login whose body is not JSON
\* with 400 and a POST to another path with 404, both without invoking the
\* login callback; and when the login callback has raised instead of returning
\* the response, the handler has answered 500.
C23_PostErrors ==
    /\ (web.method = "POST" /\ web.path = <<"api", "login">>
                            /\ web.body # "json")
          => (web.status = 400 /\ ~web.called /\ web.remote = NoResponse)
    /\ (web.method = "POST" /\ web.path # <<"api", "login">>)
          => (web.status = 404 /\ ~web.called /\ web.remote = NoResponse)
    /\ (web.called /\ pc[Main] = "cw_loop" /\ retval[Main] # "response")
          => web.status = 500

\* C24: a GET that the local server has answered with the content of a file
\* has served a file inside the public directory.
C24_NoTraversal ==
    (web.method = "GET" /\ web.status = 200)
        => /\ Len(web.content[2]) > Len(public_dir)
           /\ SubSeq(web.content[2], 1, Len(public_dir)) = public_dir

\* C25: GET / is answered 200 with the bundled index.html, and a GET for a
\* path that names no readable file under the public directory is answered
\* 404.
C25_GetStatus ==
    web.method = "GET" =>
        /\ web.path = <<>>
              => /\ web.status = 200
                 /\ web.content = <<"file", Append(public_dir, "index.html")>>
        /\ web.status # 200 => web.status = 404

\* C26: in MimiqConnection (current), connectWeb handles a request only while
\* no access token is installed, and when it has returned, the last request it
\* handled was a login whose sign-in was answered 200 and installed the token
\* the session holds.
C26_WebLoginLoop ==
    version = "current" =>
        /\ (op.name = "connectWeb" /\ pc[Main] = "cw_handle")
              => access_token = None
        /\ (result.op = "connectWeb" /\ result.outcome = "ok")
              => (web.called /\ web.remote.status = 200)

\* C27: while the session is open, a step that changes the stored access token
\* or refresh token is a step of a refresher thread, or a step of close():
\* no other operation of the calling thread rewrites the tokens of an open
\* session.
C27_OnlyRefresherWrites ==
    [][(isOpen /\ <<access_token, refresh_token>>' # <<access_token, refresh_token>>)
          => (pc'[Main] = pc[Main] \/ op.name = "close")]_vars

\* C28: in MimiqConnection (current), when a refresh() called by the user
\* overlaps the refresher's refresh, every refresh request leaves with the
\* refresh token the store holds at that moment (never one that a completed
\* refresh has replaced), and when the user's refresh() has returned and no
\* refresher is inside refresh(), the store holds the pair issued last.
C28_NoLostUpdate ==
    version = "current" =>
        /\ \A t \in Threads :
              (pc[t] = "rf_post" /\ (t = Main => op.name = "refresh"))
                 => data[t] = refresh_token
        /\ (/\ result.op = "refresh" /\ result.outcome = "ok"
            /\ pc[Main] = "done"
            /\ isOpen
            /\ \A t \in Refreshers :
                  pc[t] \in {"unborn", "dead", "rm_for", "rm_chk", "rm_lock2",
                             "rm_chk2"})
              => /\ access_token = AT(issued)
                 /\ refresh_token = RT(issued)

\* C29: in MimiqConnection (current), whenever a thread is about to send an
\* authenticated request (a job request, requestInfo, downloadFile, or the
\* users/limits request), the Authorization header of the session is
\* "Bearer " + the access token the store holds at that moment.
C29_HeaderFollowsToken ==
    version = "current" =>
        \A t \in Threads :
            pc[t] \in {"ao_send", "ri_get", "fl_get", "uul_get"}
                => headers = Bearer(access_token)

\* C30: in PlanqkConnection, when the refresher requests or installs the
\* replacement of an installed token with expires_in = E, it has slept exactly
\* floor(0.8 * E) one-second ticks since it read that token, and that number
\* is smaller than E: the token is replaced before E ticks have passed.
C30_RenewsBeforeExpiry ==
    version = "planqk" =>
        \A t \in Refreshers :
            pc[t] \in {"gt_post", "gt_resp", "pq_rm_got", "pq_rm_set"}
                => /\ access_token # None
                   /\ i[t] = (8 * expires_in(access_token)) \div 10
                   /\ i[t] < expires_in(access_token)

\* A refresher installs the replacement of a token of the longest lifetime
\* after it has slept at least one tick.
C30_Witness ==
    /\ version = "planqk"
    /\ \E t \in Refreshers :
          /\ pc[t] = "pq_rm_set"
          /\ expires_in(access_token) = MaxLifetime
          /\ i[t] > 0

\* C31: each of isJobDone, isJobFailed, isJobStarted and isJobCanceled whose
\* metadata request was answered 200 has sent exactly one metadata request and
\* returns a boolean: isJobDone is true iff the fetched status is DONE or
\* ERROR, isJobFailed iff ERROR, isJobStarted iff not NEW, isJobCanceled iff
\* CANCELED.
C31_StatusPredicates ==
    (result.op \in IsJobOps /\ resp[Main].status = 200)
        => /\ result.outcome = "ok"
           /\ wire = << <<"info", 0>> >>
           /\ retval[Main] \in {"True", "False"}
           /\ (result.op = "isJobDone") =>
                 (retval[Main] = "True" <=> dl.status \in {"DONE", "ERROR"})
           /\ (result.op = "isJobFailed") =>
                 (retval[Main] = "True" <=> dl.status = "ERROR")
           /\ (result.op = "isJobStarted") =>
                 (retval[Main] = "True" <=> dl.status # "NEW")
           /\ (result.op = "isJobCanceled") =>
                 (retval[Main] = "True" <=> dl.status = "CANCELED")

\* C32: in MimiqConnection (current), a savetoken that returned has left a
\* file with the session's url; a loadtoken whose file carries the session's
\* url posts exactly the token of the file to the refresh endpoint, its
\* connectToken fails only when the refresh endpoint rejects that token (a
\* non-200 answer), and when it returns the session is open.
C32_SaveLoadRoundTrip ==
    version = "current" =>
        /\ (result.op = "savetoken" /\ result.outcome = "ok")
              => tokenfile.url = "this"
        /\ (op.name = "loadtoken" /\ pc[Main] = "rf_post")
              => (tokenfile.url = "this" /\ data[Main] = tokenfile.token)
        /\ (op.name = "loadtoken" /\ pc[Main] = "lt_err")
              => retval[Main] = "RefreshFailed"
        /\ (result.op = "loadtoken" /\ result.outcome = "ok") => result.open

\* C33: refresh() called by the user never raises: it returns a true value
\* when the refresh endpoint answered 200 and a false value when it answered
\* another status.
C33_RefreshReturns ==
    (IsMimiq /\ result.op = "refresh")
        => /\ result.outcome = "ok"
           /\ retval[Main] = IF err.status = 0 THEN "True" ELSE "False"

\* C34: checkAuth() called by the user never raises: it returns a false value
\* when no access token is installed and a true value when one is installed.
C34_CheckAuthReturns ==
    (IsMimiq /\ result.op = "checkAuth")
        => /\ result.outcome = "ok"
           /\ retval[Main] = IF result.noauth THEN "False" ELSE "True"

\* C35: in the MimiqConnection of mimiqlib, from a successful authenticate
\* until cancel_refresher (while refresher_task is set) a refresh is always
\* pending or running: the Timer is waiting to fire or its refresh is under
\* way, so that every firing is followed by a next one (a Timer whose refresh
\* failed with an exception is left aside).
C35_TimerRepeats ==
    (/\ version = "mimiqlib"
     /\ refresher_task # NoThread
     /\ retval[refresher_task] # "KeyError")
        => is_alive(pc, refresher_task)

\* C36: in MimiqConnection (current), when connectUser or connectToken has
\* raised, or a login handled during connectWeb has raised (answered 500), no
\* access token is installed; and when one of the three has ended with an
\* access token installed, a refresher thread has been started.
C36_NoTokenAfterFailure ==
    version = "current" =>
        /\ (result.op \in {"connectUser", "connectToken"}
               /\ result.outcome = "raised")
              => access_token = None
        /\ (op.name = "connectWeb" /\ pc[Main] = "cw_loop"
               /\ web.called /\ web.status = 500)
              => access_token = None
        /\ (result.op \in {"connectUser", "connectToken", "connectWeb"}
               /\ access_token # None)
              => refresher_task # NoThread

\* C37: in MimiqConnection (current and legacy), when close() has returned
\* both tokens are None and every refresher thread has ended, and the step
\* that follows is not a step of a refresher and writes no token: the
\* refresher that was running sends nothing and stores nothing any more.
C37_ClosedStaysClosed ==
    [][(IsMimiq /\ result.op = "close" /\ result.outcome = "ok")
          => /\ access_token = None /\ refresh_token = None
             /\ UNCHANGED <<access_token, refresh_token>>
             /\ \A t \in Refreshers :
                   pc[t] \in {"unborn", "dead"} /\ pc'[t] = pc[t]]_vars

\* close() has returned on a session whose refresher was running and ended
\* because of the stop flag.
C37_Witness ==
    /\ IsMimiq
    /\ result.op = "close" /\ result.outcome = "ok"
    /\ refresher_task # NoThread
    /\ pc[refresher_task] = "dead"
    /\ retval[refresher_task] = "None"
    /\ issued = MaxIssued

\* C38: in MimiqConnection (current), when a connect call has returned without
\* raising (in particular one that follows a close(), which leaves the stop
\* flag set), exactly one refresher thread is alive, it is the one the session
\* refers to, and the stop flag is clear.
C38_OneFreshRefresher ==
    (version = "current" /\ result.op \in ConnectFlows
                         /\ result.outcome = "ok")
        => /\ ~refresher_stop
           /\ refresher_task # NoThread
           /\ AliveRefreshers = {refresher_task}

\* C39: in PlanqkConnection, the step in which a periodic renewal fails leaves
\* the installed token and the Authorization header as they were; the
\* refresher then goes back to the top of its loop, and it requests a token
\* again only after it has slept the whole sleep period; a refresher ends only
\* when the stop flag is set.
C39_RenewalFailureKeepsToken ==
    [][version = "planqk" =>
        \A t \in Refreshers :
            /\ (pc[t] # "pq_rm_err" /\ pc'[t] = "pq_rm_err")
                  => UNCHANGED <<access_token, headers>>
            /\ (pc[t] = "pq_rm_err" /\ pc'[t] # pc[t])
                  => (pc'[t] = "pq_rm_top" /\ UNCHANGED <<access_token, headers>>)
            /\ (pc[t] # "gt_post" /\ pc'[t] = "gt_post")
                  => (i[t] = sleep_time[t] /\ ~refresher_stop)
            /\ (pc[t] # "dead" /\ pc'[t] = "dead") => refresher_stop]_vars

\* A refresher whose renewal failed requests a token again, after a sleep
\* period of at least one tick, with the token and the header still in place.
C39_Witness ==
    /\ version = "planqk"
    /\ \E t \in Refreshers :
          /\ pc[t] = "gt_post"
          /\ retval[t] = "TokenFailed"
          /\ i[t] > 0
          /\ access_token # None
          /\ headers = HeaderOf(access_token)

\* C40: in MimiqConnection (current and legacy), when close() has returned the
\* session's default headers carry no Authorization header.
C40_HeaderCleared ==
    (IsMimiq /\ result.op = "close" /\ result.outcome = "ok")
        => headers = None

====
